---- MODULE Spec2Model ----
(***************************************************************************)
(* Model of the api-pvp simulation engine (GameEngine, Projectile and the  *)
(* constants), one engine instance with its interval timer.                *)
(*                                                                         *)
(* Lengths are in tenths of an arena unit, so that PLAYER_SPEED = 1.5 and  *)
(* PLAYER_SIZE = 0.5 are the integers 15 and 5.  Angles are in degrees and *)
(* the inputs are multiples of 90, where cos and sin are -1, 0 or 1.       *)
(* A JavaScript value that is not a finite number (undefined used in       *)
(* arithmetic, NaN, Infinity % 360) is the value NaN below; arithmetic     *)
(* propagates it and every comparison with it is false, as in JavaScript.  *)
(***************************************************************************)
EXTENDS Integers, Sequences, FiniteSets, TLC

\* ------------------------------------------------------------- bounds
\* Ticks a sandbox loop is followed for (the tick counter is unbounded there).
MaxTick == 3
\* The battle time limit the model runs with (2400 in constants.js).
MaxBattleTicks == 2
\* Accepted submissions over a run of the engine's whole life (Spec).
MaxQueued == 1
\* Accepted submissions over a run of a started sandbox (SpecActions).
MaxSubmits == 2
\* Requests of the control client that await their answer at one time.
MaxInFlight == 2

\* ---------------------------------------------------------- constants
NaN == -1000000
NoTimer == 0
\* the control client as its script leaves it: not registered, localState at
\* its defaults, no retry pending, no timeout set, no request under way
NoClient ==
    [playerId |-> FALSE, alive |-> TRUE, ammo |-> TRUE, reloadCd |-> FALSE,
     pendingRetry |-> NoTimer, timeouts |-> {}, inflight |-> <<>>,
     last |-> [op |-> "load", act |-> <<>>, out |-> "none"]]
\* the server's state before any registration: empty playerRegistry,
\* battleEngine = null, battleActive = false
NoServer == [registry |-> <<>>, battleEngine |-> FALSE, battleActive |-> FALSE]

ARENA_WIDTH == 400
ARENA_HEIGHT == 300
PLAYER_HP == 100
PLAYER_AMMO == 5
PLAYER_MAX_AMMO == 5
PLAYER_SPEED == 15
PLAYER_SIZE == 5
BULLET_DAMAGE == 25
BULLET_SPEED == 50
BULLET_MAX_LIFETIME_TICKS == 50
MAX_BULLETS_PER_PLAYER == 5
RELOAD_AMOUNT == 5
RELOAD_COOLDOWN_TICKS == 10
MAX_BATTLE_DURATION_TICKS == MaxBattleTicks
\* Projectile.js destructures BULLET_SIZE from constants.js, which does not
\* export it: the value is undefined, and undefined + number is NaN.
BULLET_SIZE == NaN
\* player.size + 0.2, the distance at which a projectile spawns
SPAWN_OFFSET == PLAYER_SIZE + 2

MODE_TEST == "test"
MODE_BATTLE == "battle"
MODE_FINISHED == "finished"

DIRECTIONS == [up |-> <<0, -1>>, down |-> <<0, 1>>, left |-> <<-1, 0>>, right |-> <<1, 0>>]

PlayerIds == {"p1", "p2"}
Usernames == {"alice", "bob"}
\* The points the arena hands out as spawn points, in its order of preference.
SpawnPoints == <<<<50, 50>>, <<150, 50>>, <<50, 200>>>>

Null == "null"
Undefined == "undefined"

\* ------------------------------------------------ JavaScript arithmetic
IsNum(a) == a # NaN
Add(a, b) == IF IsNum(a) /\ IsNum(b) THEN a + b ELSE NaN
Sub(a, b) == IF IsNum(a) /\ IsNum(b) THEN a - b ELSE NaN
Mul(a, b) == IF IsNum(a) /\ IsNum(b) THEN a * b ELSE NaN
Min(a, b) == IF a < b THEN a ELSE b
Max(a, b) == IF a > b THEN a ELSE b
\* a % n of JavaScript: the remainder has the sign of the dividend
JsRem(a, n) == IF ~IsNum(a) THEN NaN ELSE IF a >= 0 THEN a % n ELSE 0 - ((0 - a) % n)
\* ((angle % 360) + 360) % 360
normaliseAngle(a) == JsRem(Add(JsRem(a, 360), 360), 360)
\* Math.cos / Math.sin of angle * PI / 180, at the multiples of 90
CosDeg(a) == IF a = 0 THEN 1 ELSE IF a = 180 THEN -1 ELSE IF a \in {90, 270} THEN 0 ELSE NaN
SinDeg(a) == IF a = 90 THEN 1 ELSE IF a = 270 THEN -1 ELSE IF a \in {0, 180} THEN 0 ELSE NaN
\* Math.hypot(ax, ay) < r, on the squares
HypotLt(ax, ay, r) ==
    IsNum(ax) /\ IsNum(ay) /\ IsNum(r) /\ ax * ax + ay * ay < r * r

\* GameEngine._pointSegDist(px, py, ax, ay, bx, by) < r, on the squares
pointSegDistLt(px, py, ax, ay, bx, by, r) ==
    IF ~(IsNum(px) /\ IsNum(py) /\ IsNum(ax) /\ IsNum(ay) /\ IsNum(bx) /\ IsNum(by) /\ IsNum(r))
    THEN FALSE
    ELSE LET dx == bx - ax
             dy == by - ay
             lenSq == dx * dx + dy * dy
             dot == (px - ax) * dx + (py - ay) * dy
             paSq == (px - ax) * (px - ax) + (py - ay) * (py - ay)
             pbSq == (px - bx) * (px - bx) + (py - by) * (py - by)
         IN  IF lenSq = 0 THEN paSq < r * r
             ELSE IF dot <= 0 THEN paSq < r * r
             ELSE IF dot >= lenSq THEN pbSq < r * r
             ELSE paSq * lenSq - dot * dot < r * r * lenSq

VARIABLES
    players,        \* Map id -> Player, in insertion order
    projectiles,    \* Map id -> Projectile, in insertion order
    mode,
    tickCount,
    tickInterval,   \* the handle of the engine's interval, or NoTimer
    onStateUpdate,  \* whether a state-update callback is installed
    battleLog,
    winner,         \* Null, Undefined, or the id of the winning player
    timers,         \* the runtime's active intervals
    due,            \* the active intervals whose next firing is pending
    nanBlocks,      \* the arena's answer to isBlocked with a non-number argument
    budget,         \* the accepted submissions the run is followed for
    horizon,        \* the tick count the run is followed to
    throws,         \* whether the installed callback throws when it is invoked
    orch,           \* the server's playerRegistry, battleEngine and battleActive
    client,         \* the control client: playerId, localState, pendingRetry, its timeouts and requests
    serial,         \* accepted submissions so far
    submitted,      \* per player id, the submissions accepted since its last resolved one
    resolved,       \* the actions the last tick resolved, in order
    emitted,        \* the snapshots the last operation passed to the callback
    ret             \* the last operation and what it returned

vars == <<players, projectiles, mode, tickCount, tickInterval, onStateUpdate, battleLog,
          winner, timers, due, nanBlocks, budget, horizon, throws, orch, client, serial, submitted, resolved,
          emitted, ret>>

engine == <<players, projectiles, mode, tickCount, tickInterval, battleLog, winner>>

\* ------------------------------------------------------------ sequences
\* the place of key id in the map, 0 when it is absent
IndexOfId(ps, id) ==
    IF \E i \in 1..Len(ps) : ps[i].id = id
    THEN CHOOSE i \in 1..Len(ps) : ps[i].id = id
    ELSE 0

\* Map.set(id, player): an existing key keeps its place
MapSet(ps, player) ==
    LET i == IndexOfId(ps, player.id)
    IN  IF i = 0 THEN Append(ps, player) ELSE [ps EXCEPT ![i] = player]

\* ---------------------------------------------------------------- Arena
\* isBlocked(x, y, radius): the circle leaves the arena
isBlocked(x, y, r) ==
    IF ~(IsNum(x) /\ IsNum(y) /\ IsNum(r)) THEN nanBlocks
    ELSE x - r < 0 \/ x + r > ARENA_WIDTH \/ y - r < 0 \/ y + r > ARENA_HEIGHT

\* getSpawnPoint(occupied): the first of its points that no one occupies
getSpawnPoint(occupied) ==
    LET free == {n \in 1..Len(SpawnPoints) :
                    \A i \in 1..Len(occupied) : occupied[i] # SpawnPoints[n]}
    IN  SpawnPoints[CHOOSE n \in free : \A m \in free : n <= m]

\* --------------------------------------------------------------- Player
\* new Player(id, username, x, y)
NewPlayer(id, username, x, y) ==
    [id |-> id, username |-> username, x |-> x, y |-> y, hp |-> PLAYER_HP,
     ammo |-> PLAYER_AMMO, reloadCooldown |-> 0, alive |-> TRUE, kills |-> 0,
     damageDealt |-> 0, pendingAction |-> <<>>]

isReloading(p) == p.reloadCooldown > 0

\* takeDamage(amount): the player after it
takeDamage(p, amount) ==
    LET hp2 == Max(0, p.hp - amount)
    IN  [p EXCEPT !.hp = hp2, !.alive = hp2 > 0]

\* tickCooldowns()
tickCooldowns(p) ==
    IF p.reloadCooldown > 0 THEN [p EXCEPT !.reloadCooldown = @ - 1] ELSE p

\* reset(x, y): position, hp, ammo and cooldown restored, statistics cleared
reset(p, x, y) ==
    [p EXCEPT !.x = x, !.y = y, !.hp = PLAYER_HP, !.ammo = PLAYER_MAX_AMMO,
              !.reloadCooldown = 0, !.alive = TRUE, !.kills = 0, !.damageDealt = 0]

\* ----------------------------------------------------------- Projectile
\* new Projectile(id, ownerId, x, y, dx, dy)
NewProjectile(ownerId, x, y, dx, dy) ==
    [ownerId |-> ownerId, x |-> x, y |-> y, dx |-> Mul(dx, BULLET_SPEED),
     dy |-> Mul(dy, BULLET_SPEED), alive |-> TRUE, ticksLived |-> 0,
     maxLifetime |-> BULLET_MAX_LIFETIME_TICKS]

\* Projectile.tick() that lets the projectile live one tick past its lifetime
projectileTickLate(pr) ==
    IF ~pr.alive THEN pr
    ELSE [pr EXCEPT !.x = Add(pr.x, pr.dx), !.y = Add(pr.y, pr.dy),
                    !.ticksLived = @ + 1,
                    !.alive = ~(pr.ticksLived + 1 > pr.maxLifetime)]

\* Projectile.tick()
projectileTick(pr) ==
    IF ~pr.alive THEN pr
    ELSE [pr EXCEPT !.x = Add(pr.x, pr.dx), !.y = Add(pr.y, pr.dy),
                    !.ticksLived = @ + 1,
                    !.alive = ~(pr.ticksLived + 1 >= pr.maxLifetime)]

\* Projectile.destroy()
destroy(pr) == [pr EXCEPT !.alive = FALSE]

\* ------------------------------------------------- GameEngine: actions
\* the unit vector of an action: the angle when it is a number, else the
\* named direction; <<>> when there is neither
actionVector(direction, angle) ==
    IF angle # <<>> THEN <<CosDeg(angle[1]), SinDeg(angle[1])>>
    ELSE IF direction \in DOMAIN DIRECTIONS THEN DIRECTIONS[direction]
    ELSE <<>>

\* _handleMove() locked out by the reload cooldown
handleMoveNotReloading(ps, i, direction, angle) ==
    LET player == ps[i]
        d == actionVector(direction, angle)
    IN  IF d = <<>> \/ isReloading(player) THEN ps
        ELSE LET newX == Add(player.x, Mul(d[1], PLAYER_SPEED))
                 newY == Add(player.y, Mul(d[2], PLAYER_SPEED))
                 blocked == \E k \in 1..Len(ps) :
                                /\ ps[k].id # player.id
                                /\ ps[k].alive
                                /\ HypotLt(Sub(newX, ps[k].x), Sub(newY, ps[k].y),
                                           PLAYER_SIZE + PLAYER_SIZE)
             IN  IF ~isBlocked(newX, newY, PLAYER_SIZE) /\ ~blocked
                 THEN [ps EXCEPT ![i].x = newX, ![i].y = newY]
                 ELSE ps

\* _handleMove() that keeps the players two diameters apart
handleMoveWide(ps, i, direction, angle) ==
    LET player == ps[i]
        d == actionVector(direction, angle)
    IN  IF d = <<>> THEN ps
        ELSE LET newX == Add(player.x, Mul(d[1], PLAYER_SPEED))
                 newY == Add(player.y, Mul(d[2], PLAYER_SPEED))
                 blocked == \E k \in 1..Len(ps) :
                                /\ ps[k].id # player.id
                                /\ ps[k].alive
                                /\ HypotLt(Sub(newX, ps[k].x), Sub(newY, ps[k].y),
                                           2 * (PLAYER_SIZE + PLAYER_SIZE))
             IN  IF ~isBlocked(newX, newY, PLAYER_SIZE) /\ ~blocked
                 THEN [ps EXCEPT ![i].x = newX, ![i].y = newY]
                 ELSE ps

\* _handleMove() without its test against the other players
handleMoveThroughPlayers(ps, i, direction, angle) ==
    LET player == ps[i]
        d == actionVector(direction, angle)
    IN  IF d = <<>> THEN ps
        ELSE LET newX == Add(player.x, Mul(d[1], PLAYER_SPEED))
                 newY == Add(player.y, Mul(d[2], PLAYER_SPEED))
             IN  IF ~isBlocked(newX, newY, PLAYER_SIZE)
                 THEN [ps EXCEPT ![i].x = newX, ![i].y = newY]
                 ELSE ps

\* _handleMove(player, direction, angle), player being ps[i]
handleMove(ps, i, direction, angle) ==
    LET player == ps[i]
        d == actionVector(direction, angle)
    IN  IF d = <<>> THEN ps
        ELSE LET newX == Add(player.x, Mul(d[1], PLAYER_SPEED))
                 newY == Add(player.y, Mul(d[2], PLAYER_SPEED))
                 blocked == \E k \in 1..Len(ps) :
                                /\ ps[k].id # player.id
                                /\ ps[k].alive
                                /\ HypotLt(Sub(newX, ps[k].x), Sub(newY, ps[k].y),
                                           PLAYER_SIZE + PLAYER_SIZE)
             IN  IF ~isBlocked(newX, newY, PLAYER_SIZE) /\ ~blocked
                 THEN [ps EXCEPT ![i].x = newX, ![i].y = newY]
                 ELSE ps

\* the live projectiles of an owner
bulletCount(prs, ownerId) ==
    Cardinality({k \in 1..Len(prs) : prs[k].ownerId = ownerId /\ prs[k].alive})

\* _handleShoot() without its test of the reload cooldown
handleShootWhileReloading(ps, prs, i, direction, angle) ==
    LET player == ps[i]
        d == actionVector(direction, angle)
        same == [players |-> ps, projectiles |-> prs]
    IN  IF player.ammo <= 0 THEN same
        ELSE IF bulletCount(prs, player.id) >= MAX_BULLETS_PER_PLAYER THEN same
        ELSE IF d = <<>> THEN same
        ELSE [players |-> [ps EXCEPT ![i].ammo = @ - 1],
              projectiles |-> Append(prs, NewProjectile(player.id,
                                  Add(player.x, Mul(d[1], SPAWN_OFFSET)),
                                  Add(player.y, Mul(d[2], SPAWN_OFFSET)), d[1], d[2]))]

\* _handleShoot() without its test of the ammo
handleShootNoAmmoCheck(ps, prs, i, direction, angle) ==
    LET player == ps[i]
        d == actionVector(direction, angle)
        same == [players |-> ps, projectiles |-> prs]
    IN  IF isReloading(player) THEN same
        ELSE IF bulletCount(prs, player.id) >= MAX_BULLETS_PER_PLAYER THEN same
        ELSE IF d = <<>> THEN same
        ELSE [players |-> [ps EXCEPT ![i].ammo = @ - 1],
              projectiles |-> Append(prs, NewProjectile(player.id,
                                  Add(player.x, Mul(d[1], SPAWN_OFFSET)),
                                  Add(player.y, Mul(d[2], SPAWN_OFFSET)), d[1], d[2]))]

\* _handleShoot() without its test of the live projectiles of the shooter
handleShootNoCap(ps, prs, i, direction, angle) ==
    LET player == ps[i]
        d == actionVector(direction, angle)
        same == [players |-> ps, projectiles |-> prs]
    IN  IF player.ammo <= 0 THEN same
        ELSE IF isReloading(player) THEN same
        ELSE IF d = <<>> THEN same
        ELSE [players |-> [ps EXCEPT ![i].ammo = @ - 1],
              projectiles |-> Append(prs, NewProjectile(player.id,
                                  Add(player.x, Mul(d[1], SPAWN_OFFSET)),
                                  Add(player.y, Mul(d[2], SPAWN_OFFSET)), d[1], d[2]))]

\* _handleShoot(player, direction, angle): the players and projectiles after it
handleShoot(ps, prs, i, direction, angle) ==
    LET player == ps[i]
        d == actionVector(direction, angle)
        same == [players |-> ps, projectiles |-> prs]
    IN  IF player.ammo <= 0 THEN same
        ELSE IF isReloading(player) THEN same
        ELSE IF bulletCount(prs, player.id) >= MAX_BULLETS_PER_PLAYER THEN same
        ELSE IF d = <<>> THEN same
        ELSE \* a unit vector divided by its length 1; NaN stays NaN
             LET dx == d[1]
                 dy == d[2]
                 spawnX == Add(player.x, Mul(dx, SPAWN_OFFSET))
                 spawnY == Add(player.y, Mul(dy, SPAWN_OFFSET))
             IN  [players |-> [ps EXCEPT ![i].ammo = @ - 1],
                  projectiles |-> Append(prs, NewProjectile(player.id, spawnX, spawnY, dx, dy))]

\* _handleReload() without the cap at maxAmmo
handleReloadUncapped(ps, i) ==
    LET player == ps[i]
    IN  IF isReloading(player) THEN ps
        ELSE [ps EXCEPT ![i].ammo = player.ammo + RELOAD_AMOUNT,
                        ![i].reloadCooldown = RELOAD_COOLDOWN_TICKS]

\* _handleReload(player)
handleReload(ps, i) ==
    LET player == ps[i]
    IN  IF player.ammo >= PLAYER_MAX_AMMO THEN ps
        ELSE IF isReloading(player) THEN ps
        ELSE [ps EXCEPT ![i].ammo = Min(PLAYER_MAX_AMMO, player.ammo + RELOAD_AMOUNT),
                        ![i].reloadCooldown = RELOAD_COOLDOWN_TICKS]

\* the slot left as it is: the action stays queued
clearSlotNot(player) == player

\* player.pendingAction = null, before the dispatch
clearSlot(player) == [player EXCEPT !.pendingAction = <<>>]

\* the switch of _processActions, on the action taken from ps[i]
dispatch(ps, prs, i, a) ==
    IF a.action = "move"
    THEN [players |-> handleMove(ps, i, a.direction, a.angle), projectiles |-> prs]
    ELSE IF a.action = "shoot" THEN handleShoot(ps, prs, i, a.direction, a.angle)
    ELSE IF a.action = "reload"
    THEN [players |-> handleReload(ps, i), projectiles |-> prs]
    ELSE [players |-> ps, projectiles |-> prs]

RECURSIVE processFrom(_, _, _, _)
\* the loop of _processActions from the i-th player on; res collects what it resolved
processFrom(ps, prs, i, res) ==
    IF i > Len(ps) THEN [players |-> ps, projectiles |-> prs, resolved |-> res]
    ELSE IF ~ps[i].alive \/ ps[i].pendingAction = <<>>
    THEN processFrom(ps, prs, i + 1, res)
    ELSE LET a == ps[i].pendingAction[1]
             cleared == [ps EXCEPT ![i] = clearSlot(ps[i])]
             after == dispatch(cleared, prs, i, a)
         IN  processFrom(after.players, after.projectiles, i + 1,
                         Append(res, [player |-> ps[i].id, action |-> a]))

\* _processActions()
processActions(ps, prs) == processFrom(ps, prs, 1, <<>>)

\* the entries of a map in the opposite order
Reverse(seq) == [k \in 1..Len(seq) |-> seq[Len(seq) + 1 - k]]

\* _processActions() over a players map that iterates in the opposite order
processActionsReversed(ps, prs) ==
    LET r == processActions(Reverse(ps), prs)
    IN  [players |-> Reverse(r.players), projectiles |-> r.projectiles,
         resolved |-> r.resolved]

\* _moveProjectiles() that leaves the projectiles fired in this tick for the next
moveProjectilesOld(prs) ==
    [k \in 1..Len(prs) |->
        IF prs[k].alive /\ prs[k].ticksLived > 0 THEN projectileTick(prs[k]) ELSE prs[k]]

\* _moveProjectiles()
moveProjectiles(prs) ==
    [k \in 1..Len(prs) |-> IF prs[k].alive THEN projectileTick(prs[k]) ELSE prs[k]]

\* the collision test of _checkProjectileCollisions
hits(proj, player) ==
    pointSegDistLt(player.x, player.y, Sub(proj.x, proj.dx), Sub(proj.y, proj.dy),
                   proj.x, proj.y, Add(BULLET_SIZE, PLAYER_SIZE))

\* the first player the projectile hits, 0 when it hits none
firstHit(ps, proj) ==
    LET cand == {k \in 1..Len(ps) :
                    ps[k].alive /\ ps[k].id # proj.ownerId /\ hits(proj, ps[k])}
    IN  IF cand = {} THEN 0 ELSE CHOOSE k \in cand : \A m \in cand : k <= m

\* the body of "Hit!": projectile j hits player k
applyHit(ps, prs, log, tick, j, k) ==
    LET proj == prs[j]
        victim == takeDamage(ps[k], BULLET_DAMAGE)
        dmg == ps[k].hp - victim.hp
        ps1 == [ps EXCEPT ![k] = victim]
        s == IndexOfId(ps1, proj.ownerId)
        ps2 == IF s = 0 THEN ps1
               ELSE [ps1 EXCEPT ![s].damageDealt = @ + dmg,
                                ![s].kills = IF victim.alive THEN @ ELSE @ + 1]
        killLog == IF s # 0 /\ ~victim.alive
                   THEN <<[tick |-> tick, event |-> "kill", who |-> ps1[s].username,
                           target |-> victim.username, damage |-> 0]>>
                   ELSE <<>>
        hitLog == <<[tick |-> tick, event |-> "hit", who |-> proj.ownerId,
                     target |-> victim.id, damage |-> dmg]>>
    IN  [players |-> ps2, projectiles |-> [prs EXCEPT ![j] = destroy(proj)],
         battleLog |-> log \o killLog \o hitLog]

RECURSIVE collideFrom(_, _, _, _, _)
\* the loop of _checkProjectileCollisions from the j-th projectile on
collideFrom(ps, prs, log, tick, j) ==
    IF j > Len(prs) THEN [players |-> ps, projectiles |-> prs, battleLog |-> log]
    ELSE IF ~prs[j].alive THEN collideFrom(ps, prs, log, tick, j + 1)
    ELSE LET k == firstHit(ps, prs[j])
         IN  IF k = 0 THEN collideFrom(ps, prs, log, tick, j + 1)
             ELSE LET h == applyHit(ps, prs, log, tick, j, k)
                  IN  collideFrom(h.players, h.projectiles, h.battleLog, tick, j + 1)

\* _checkProjectileCollisions()
checkProjectileCollisions(ps, prs, log, tick) == collideFrom(ps, prs, log, tick, 1)

\* _checkProjectileWallCollisions()
checkProjectileWallCollisions(prs) ==
    [k \in 1..Len(prs) |->
        IF prs[k].alive /\ isBlocked(prs[k].x, prs[k].y, BULLET_SIZE)
        THEN destroy(prs[k]) ELSE prs[k]]

\* _tickCooldowns()
tickAllCooldowns(ps) == [k \in 1..Len(ps) |-> tickCooldowns(ps[k])]

\* _cleanupProjectiles()
cleanupProjectiles(prs) == SelectSeq(prs, LAMBDA pr : pr.alive)

\* steps 1 to 6 of _tick() on the players and projectiles: what a tick of a
\* sandbox does to them
tickWorld(ps, prs) ==
    LET pa == processActions(ps, prs)
        mp == moveProjectiles(pa.projectiles)
        col == checkProjectileCollisions(pa.players, mp, <<>>, 0)
        wall == checkProjectileWallCollisions(col.projectiles)
    IN  [players |-> tickAllCooldowns(col.players), projectiles |-> cleanupProjectiles(wall)]

RECURSIVE fastForward(_, _, _)
\* the players and projectiles of a sandbox after the ticks of a script; a
\* round of the script gives every player the action queued for that tick
fastForward(ps, prs, script) ==
    IF script = <<>> THEN [players |-> ps, projectiles |-> prs]
    ELSE LET queued == [k \in 1..Len(ps) |-> [ps[k] EXCEPT !.pendingAction = Head(script)[k]]]
         IN  CHOOSE after \in {fastForward(w.players, w.projectiles, Tail(script)) :
                                   w \in {tickWorld(queued, prs)}} : TRUE

\* ------------------------------------------------ GameEngine: tick loop
\* the least handle the runtime has not in use
freshTimer(tm) == CHOOSE h \in 1..(Cardinality(tm) + 1) : h \notin tm /\ \A k \in 1..(h - 1) : k \in tm

\* clearInterval(h): the interval is cancelled, a pending firing with it
clearInterval(loop, h) ==
    [loop EXCEPT !.timers = @ \ {h}, !.due = @ \ {h}]

\* _startTickLoop() without its clearInterval: the old interval keeps running
startTickLoopNoClear(loop) ==
    LET h == freshTimer(loop.timers)
    IN  [loop EXCEPT !.tickInterval = h, !.timers = @ \cup {h}]

\* _startTickLoop(), on loop = [tickInterval, timers, due]
startTickLoop(loop) ==
    LET c == IF loop.tickInterval # NoTimer THEN clearInterval(loop, loop.tickInterval) ELSE loop
        h == freshTimer(c.timers)
    IN  [c EXCEPT !.tickInterval = h, !.timers = @ \cup {h}]

\* _stopTickLoop() that forgets the handle without cancelling the interval
stopTickLoopForget(loop) == [loop EXCEPT !.tickInterval = NoTimer]

\* _stopTickLoop()
stopTickLoop(loop) ==
    IF loop.tickInterval # NoTimer
    THEN [clearInterval(loop, loop.tickInterval) EXCEPT !.tickInterval = NoTimer]
    ELSE loop

theLoop == [tickInterval |-> tickInterval, timers |-> timers, due |-> due]

\* getFullState(), the fields the claims read
getFullState(m, t, w) == [mode |-> m, tick |-> t, winner |-> w]

\* what the callback receives, when one is installed
broadcast(cb, snapshot) == IF cb THEN <<snapshot>> ELSE <<>>

\* the winner with the sort unstable: the last of the players with the top hp
pickWinnerLast(ps) ==
    LET alive == {k \in 1..Len(ps) : ps[k].alive}
        top == {k \in 1..Len(ps) : \A m \in 1..Len(ps) : ps[k].hp >= ps[m].hp}
    IN  IF Cardinality(alive) = 1 THEN ps[CHOOSE k \in alive : TRUE].id
        ELSE IF ps = <<>> THEN Undefined
        ELSE ps[CHOOSE k \in top : \A m \in top : k >= m].id

\* the winner _endBattle determines: the id of the sole survivor, else of
\* sorted[0] after the stable sort by hp descending, undefined without players
pickWinner(ps) ==
    LET alive == {k \in 1..Len(ps) : ps[k].alive}
        top == {k \in 1..Len(ps) : \A m \in 1..Len(ps) : ps[k].hp >= ps[m].hp}
    IN  IF Cardinality(alive) = 1 THEN ps[CHOOSE k \in alive : TRUE].id
        ELSE IF ps = <<>> THEN Undefined
        ELSE ps[CHOOSE k \in top : \A m \in top : k <= m].id

\* the username the game_over entry names
winnerName(ps, w) == IF w \in {Null, Undefined} THEN "none" ELSE ps[IndexOfId(ps, w)].username

\* _endBattle() without its _stopTickLoop()
endBattleRunning(ps, log, tick, loop, cb) ==
    LET w == pickWinner(ps)
    IN  [ended |-> TRUE, loop |-> loop, mode |-> MODE_FINISHED, winner |-> w,
         battleLog |-> Append(log, [tick |-> tick, event |-> "game_over",
                                    who |-> winnerName(ps, w), target |-> "", damage |-> 0]),
         emitted |-> broadcast(cb, getFullState(MODE_FINISHED, tick, w))]

\* _endBattle(): loop, mode, winner, log and what it broadcasts
endBattle(ps, log, tick, loop, cb) ==
    LET w == pickWinner(ps)
    IN  [ended |-> TRUE, loop |-> stopTickLoop(loop), mode |-> MODE_FINISHED, winner |-> w,
         battleLog |-> Append(log, [tick |-> tick, event |-> "game_over",
                                    who |-> winnerName(ps, w), target |-> "", damage |-> 0]),
         emitted |-> broadcast(cb, getFullState(MODE_FINISHED, tick, w))]

\* _checkWinCondition(), called with mode m and winner w
checkWinCondition(ps, log, tick, loop, cb, m, w) ==
    LET alivePlayers == {k \in 1..Len(ps) : ps[k].alive}
        goOn == [ended |-> FALSE, loop |-> loop, mode |-> m, winner |-> w,
                 battleLog |-> log, emitted |-> <<>>]
    IN  IF tick >= MAX_BATTLE_DURATION_TICKS THEN endBattle(ps, log, tick, loop, cb)
        ELSE IF Cardinality(alivePlayers) <= 1 /\ Len(ps) > 1
        THEN endBattle(ps, log, tick, loop, cb)
        ELSE goOn

\* the record of a step: the operation, what it returned, and whether the loop
\* was running and a firing was pending when it was called
stepRecord(op, res) ==
    [op |-> op, res |-> res, running |-> tickInterval # NoTimer, pending |-> due # {}]

\* what a step other than a tick leaves behind in the records of the run
called(op, res) ==
    /\ ret' = stepRecord(op, res)
    /\ emitted' = <<>>
    /\ resolved' = <<>>

\* step 7 of _tick without its test of the mode
winCheckAlways(m) == TRUE

\* the battle-mode test of step 7 of _tick
winCheckApplies(m) == m = MODE_BATTLE

\* the invocations of the callback that take place: the first one that throws
\* leaves _tick by the exception, past every statement that follows it
untilThrow(thr, calls) == IF thr /\ calls # <<>> THEN <<Head(calls)>> ELSE calls

\* _tick(), run by the runtime for the due interval h. An exception that the
\* callback throws leaves _tick and the timer callback uncaught: the runtime
\* ends the process (exits) unless its host handles uncaught exceptions.
tick(h) ==
    /\ h \in due
    /\ tickCount < horizon
    /\ \E exits \in (IF onStateUpdate /\ throws THEN BOOLEAN ELSE {FALSE}) :
       LET t == tickCount + 1
           pa == processActions(players, projectiles)
           mp == moveProjectiles(pa.projectiles)
           col == checkProjectileCollisions(pa.players, mp, battleLog, t)
           wall == checkProjectileWallCollisions(col.projectiles)
           cd == tickAllCooldowns(col.players)
           cl == cleanupProjectiles(wall)
           fired == [theLoop EXCEPT !.due = @ \ {h}]
           win == IF winCheckApplies(mode)
                  THEN checkWinCondition(cd, col.battleLog, t, fired, onStateUpdate, mode, winner)
                  ELSE [ended |-> FALSE, loop |-> fired, mode |-> mode, winner |-> winner,
                        battleLog |-> col.battleLog, emitted |-> <<>>]
       IN  /\ tickCount' = t
           /\ players' = cd
           /\ projectiles' = cl
           /\ battleLog' = win.battleLog
           /\ mode' = win.mode
           /\ winner' = win.winner
           /\ tickInterval' = win.loop.tickInterval
           /\ timers' = IF exits THEN {} ELSE win.loop.timers
           /\ due' = IF exits THEN {} ELSE win.loop.due
           /\ resolved' = [k \in 1..Len(pa.resolved) |->
                   [player |-> pa.resolved[k].player, action |-> pa.resolved[k].action,
                    outOf |-> Len(submitted[pa.resolved[k].player])]]
           /\ submitted' = [id \in PlayerIds |->
                   IF \E k \in 1..Len(pa.resolved) : pa.resolved[k].player = id
                   THEN <<>> ELSE submitted[id]]
           /\ emitted' = untilThrow(throws, win.emitted \o
                               broadcast(onStateUpdate, getFullState(win.mode, t, win.winner)))
           /\ ret' = stepRecord("tick", IF exits THEN "exit"
                                        ELSE IF win.ended THEN "ended" ELSE "none")
    /\ UNCHANGED <<onStateUpdate, nanBlocks, budget, horizon, throws, orch, client, serial>>

\* the interval of the runtime elapses: the firing of h becomes pending
timerElapses(h) ==
    /\ h \in timers \ due
    /\ due' = due \cup {h}
    /\ called("timer", "none")
    /\ UNCHANGED <<players, projectiles, mode, tickCount, tickInterval, onStateUpdate,
                   battleLog, winner, timers, nanBlocks, budget, horizon, throws, orch, client, serial, submitted>>

\* -------------------------------------------- GameEngine: operations
RECURSIVE resetFrom(_, _, _)
\* the loop "Reset all players" from the k-th player on, positions taken so far
resetFrom(ps, k, positions) ==
    IF k > Len(ps) THEN ps
    ELSE LET spawn == getSpawnPoint(positions)
         IN  resetFrom([ps EXCEPT ![k] = reset(ps[k], spawn[1], spawn[2])], k + 1,
                       Append(positions, spawn))

\* "Reset all players" of startBattle and resetToLobby
resetAll(ps) == resetFrom(ps, 1, <<>>)

\* registerPlayer() without its test for a username already taken
registerPlayerNoCheck(username, forceId) ==
    /\ forceId # Null \/ \E id \in PlayerIds : IndexOfId(players, id) = 0
    /\ LET id == IF forceId # Null THEN forceId
                 ELSE CHOOSE i \in PlayerIds : IndexOfId(players, i) = 0
           existingPositions == [k \in 1..Len(players) |-> <<players[k].x, players[k].y>>]
           spawn == getSpawnPoint(existingPositions)
       IN  /\ players' = MapSet(players, NewPlayer(id, username, spawn[1], spawn[2]))
           /\ submitted' = [submitted EXCEPT ![id] = <<>>]
    /\ called("registerPlayer", "ok")

\* registerPlayer(username, forceId); forceId = Null asks for a generated id
registerPlayer(username, forceId) ==
    IF \E k \in 1..Len(players) : players[k].username = username
    THEN /\ called("registerPlayer", "error")
         /\ UNCHANGED <<players, submitted>>
    ELSE /\ forceId # Null \/ \E id \in PlayerIds : IndexOfId(players, id) = 0
         /\ LET id == IF forceId # Null THEN forceId
                      ELSE CHOOSE i \in PlayerIds : IndexOfId(players, i) = 0
                existingPositions == [k \in 1..Len(players) |-> <<players[k].x, players[k].y>>]
                spawn == getSpawnPoint(existingPositions)
            IN  /\ players' = MapSet(players, NewPlayer(id, username, spawn[1], spawn[2]))
                /\ submitted' = [submitted EXCEPT ![id] = <<>>]
         /\ called("registerPlayer", "ok")

\* the registrations the model draws from: generated ids, and a forced one
RegisterInputs ==
    {<<username, Null>> : username \in Usernames} \cup {<<"bob", "p1">>}

registerPlayerCall ==
    /\ \E in \in RegisterInputs : registerPlayer(in[1], in[2])
    /\ UNCHANGED <<projectiles, mode, tickCount, tickInterval, onStateUpdate, battleLog,
                   winner, timers, due, nanBlocks, budget, horizon, throws, orch, client, serial>>

\* removePlayer() without the removal of the player's projectiles
removePlayerOnly(ps, prs, playerId) ==
    [players |-> SelectSeq(ps, LAMBDA p : p.id # playerId), projectiles |-> prs]

\* the players and projectiles removePlayer(playerId) leaves
withoutPlayer(ps, prs, playerId) ==
    [players |-> SelectSeq(ps, LAMBDA p : p.id # playerId),
     projectiles |-> SelectSeq(prs, LAMBDA pr : pr.ownerId # playerId)]

\* removePlayer(playerId); the record of the step also tells how many live
\* projectiles the player owned when it was called
removePlayer(playerId) ==
    /\ players' = withoutPlayer(players, projectiles, playerId).players
    /\ projectiles' = withoutPlayer(players, projectiles, playerId).projectiles
    /\ submitted' = [submitted EXCEPT ![playerId] = <<>>]
    /\ ret' = [op |-> "removePlayer", res |-> "none", running |-> tickInterval # NoTimer,
               pending |-> due # {}, owned |-> bulletCount(projectiles, playerId)]
    /\ emitted' = <<>>
    /\ resolved' = <<>>
    /\ UNCHANGED <<mode, tickCount, tickInterval, onStateUpdate, battleLog, winner, timers,
                   due, nanBlocks, budget, horizon, throws, orch, client, serial>>

\* the submissions the model draws from: [action, direction, angle], the angle
\* <<>> when it is no number
ActionInputs ==
    { [action |-> "move", direction |-> "right", angle |-> <<>>],
      [action |-> "move", direction |-> "", angle |-> <<-270>>],
      [action |-> "move", direction |-> "left", angle |-> <<NaN>>],
      [action |-> "move", direction |-> "", angle |-> <<>>],
      [action |-> "move", direction |-> "north", angle |-> <<>>],
      [action |-> "shoot", direction |-> "right", angle |-> <<>>],
      [action |-> "shoot", direction |-> "", angle |-> <<NaN>>],
      [action |-> "reload", direction |-> "", angle |-> <<>>],
      [action |-> "dash", direction |-> "right", angle |-> <<>>] }

\* the submissions the runs of the engine's whole life draw from
LifeInputs ==
    { [action |-> "move", direction |-> "right", angle |-> <<>>],
      [action |-> "shoot", direction |-> "right", angle |-> <<>>],
      [action |-> "reload", direction |-> "", angle |-> <<>>],
      [action |-> "dash", direction |-> "right", angle |-> <<>>] }

\* the validation of submitAction taking every number for an angle
validateAnyNumber(in) ==
    LET hasAngle == in.angle # <<>>
        hasDirection == in.direction \in DOMAIN DIRECTIONS
    IN  IF in.action \notin {"move", "shoot", "reload"} THEN "error"
        ELSE IF in.action \in {"move", "shoot"} /\ ~hasAngle /\ ~hasDirection THEN "error"
        ELSE "ok"

\* the validation of submitAction: "ok" or the error
validate(in) ==
    LET hasAngle == in.angle # <<>> /\ IsNum(in.angle[1])
        hasDirection == in.direction \in DOMAIN DIRECTIONS
    IN  IF in.action \notin {"move", "shoot", "reload"} THEN "error"
        ELSE IF in.action \in {"move", "shoot"} /\ ~hasAngle /\ ~hasDirection THEN "error"
        ELSE "ok"

\* a submission that does not replace an action already queued
queueActionIfEmpty(player, act) ==
    IF player.pendingAction = <<>> THEN [player EXCEPT !.pendingAction = <<act>>] ELSE player

\* player.pendingAction = { action, direction, angle }: the slot is overwritten
queueAction(player, act) == [player EXCEPT !.pendingAction = <<act>>]

\* submitAction(playerId, action, direction, angle)
submitAction(playerId, in) ==
    LET i == IndexOfId(players, playerId)
    IN  /\ serial < budget
        /\ IF i = 0 \/ ~players[i].alive
           THEN /\ called("submitAction", "error")
                /\ UNCHANGED <<players, serial, submitted>>
           ELSE IF validate(in) = "error"
           THEN /\ called("submitAction", "error")
                /\ UNCHANGED <<players, serial, submitted>>
           ELSE LET angle == IF in.angle # <<>> THEN <<normaliseAngle(in.angle[1])>> ELSE <<>>
                    act == [action |-> in.action, direction |-> in.direction,
                            angle |-> angle]
                IN  /\ players' = [players EXCEPT ![i] = queueAction(players[i], act)]
                    /\ serial' = serial + 1
                    /\ submitted' = [submitted EXCEPT ![playerId] = Append(@, act)]
                    /\ called("submitAction", "ok")
        /\ UNCHANGED <<projectiles, mode, tickCount, tickInterval, onStateUpdate, battleLog,
                       winner, timers, due, nanBlocks, budget, horizon, throws, orch, client>>

\* startBattle()
startBattle ==
    /\ IF Len(players) < 1
       THEN /\ called("startBattle", "error")
            /\ UNCHANGED <<players, projectiles, mode, tickCount, tickInterval, battleLog,
                           winner, timers, due>>
       ELSE /\ mode' = MODE_BATTLE
            /\ tickCount' = 0
            /\ winner' = Null
            /\ battleLog' = <<>>
            /\ players' = resetAll(players)
            /\ projectiles' = <<>>
            /\ LET loop == startTickLoop(theLoop)
               IN  /\ tickInterval' = loop.tickInterval
                   /\ timers' = loop.timers
                   /\ due' = loop.due
            /\ called("startBattle", "ok")
    /\ UNCHANGED <<onStateUpdate, nanBlocks, budget, horizon, throws, orch, client, serial, submitted>>

\* startSandbox()
startSandbox ==
    /\ mode' = MODE_TEST
    /\ LET loop == startTickLoop(theLoop)
       IN  /\ tickInterval' = loop.tickInterval
           /\ timers' = loop.timers
           /\ due' = loop.due
    /\ called("startSandbox", "none")
    /\ UNCHANGED <<players, projectiles, tickCount, onStateUpdate, battleLog, winner,
                   nanBlocks, budget, horizon, throws, orch, client, serial, submitted>>

\* stopBattle()
stopBattle ==
    /\ LET loop == stopTickLoop(theLoop)
       IN  /\ tickInterval' = loop.tickInterval
           /\ timers' = loop.timers
           /\ due' = loop.due
    /\ mode' = MODE_FINISHED
    /\ called("stopBattle", "none")
    /\ UNCHANGED <<players, projectiles, tickCount, onStateUpdate, battleLog, winner,
                   nanBlocks, budget, horizon, throws, orch, client, serial, submitted>>

\* battleEngine._stopTickLoop(), as doReset calls it
stopTickLoopCall ==
    /\ LET loop == stopTickLoop(theLoop)
       IN  /\ tickInterval' = loop.tickInterval
           /\ timers' = loop.timers
           /\ due' = loop.due
    /\ called("_stopTickLoop", "none")
    /\ UNCHANGED <<players, projectiles, mode, tickCount, onStateUpdate, battleLog, winner,
                   nanBlocks, budget, horizon, throws, orch, client, serial, submitted>>

\* resetToLobby()
resetToLobby ==
    /\ LET loop == stopTickLoop(theLoop)
       IN  /\ tickInterval' = loop.tickInterval
           /\ timers' = loop.timers
           /\ due' = loop.due
    /\ mode' = MODE_TEST
    /\ tickCount' = 0
    /\ projectiles' = <<>>
    /\ battleLog' = <<>>
    /\ winner' = Null
    /\ players' = resetAll(players)
    /\ called("resetToLobby", "none")
    /\ UNCHANGED <<onStateUpdate, nanBlocks, budget, horizon, throws, orch, client, serial, submitted>>

\* engine.onStateUpdate = (fullState) => ..., as doStartBattle installs it
setOnStateUpdate ==
    /\ ~onStateUpdate
    /\ onStateUpdate' = TRUE
    /\ called("onStateUpdate", "none")
    /\ UNCHANGED <<players, projectiles, mode, tickCount, tickInterval, battleLog, winner,
                   timers, due, nanBlocks, budget, horizon, throws, orch, client, serial, submitted>>

\* ------------------------------------------------ server: orchestration
\* engine.registerPlayer(username, playerId) on the players ps of an engine
withPlayer(ps, username, forceId) ==
    IF \E k \in 1..Len(ps) : ps[k].username = username THEN ps
    ELSE LET existingPositions == [k \in 1..Len(ps) |-> <<ps[k].x, ps[k].y>>]
             spawn == getSpawnPoint(existingPositions)
         IN  MapSet(ps, NewPlayer(forceId, username, spawn[1], spawn[2]))

RECURSIVE registerAll(_, _)
\* "Register every player" of doStartBattle: the registry in its order
registerAll(registry, ps) ==
    IF registry = <<>> THEN ps
    ELSE registerAll(Tail(registry),
                     withPlayer(ps, Head(registry).username, Head(registry).id))

\* doStartBattle()
doStartBattle ==
    IF orch.battleActive \/ Len(orch.registry) = 0
    THEN /\ called("doStartBattle", "error")
         /\ UNCHANGED <<players, projectiles, mode, tickCount, tickInterval, onStateUpdate,
                        battleLog, winner, timers, due, nanBlocks, budget, horizon, throws, orch, client,
                        serial, submitted>>
    ELSE /\ players' = resetAll(registerAll(orch.registry, <<>>))
         /\ projectiles' = <<>>
         /\ mode' = MODE_BATTLE
         /\ tickCount' = 0
         /\ winner' = Null
         /\ battleLog' = <<>>
         /\ LET loop == startTickLoop([theLoop EXCEPT !.tickInterval = NoTimer])
            IN  /\ tickInterval' = loop.tickInterval
                /\ timers' = loop.timers
                /\ due' = loop.due
         /\ onStateUpdate' = TRUE
         /\ orch' = [orch EXCEPT !.battleEngine = TRUE, !.battleActive = TRUE]
         /\ submitted' = [id \in PlayerIds |-> <<>>]
         /\ called("doStartBattle", "ok")
         /\ UNCHANGED <<nanBlocks, budget, horizon, throws, client, serial>>

\* doReset(): the loop of the battle engine is stopped, the engine dropped
doReset ==
    /\ LET loop == IF orch.battleEngine THEN stopTickLoop(theLoop) ELSE theLoop
       IN  /\ timers' = loop.timers
           /\ due' = loop.due
    /\ orch' = [orch EXCEPT !.battleEngine = FALSE, !.battleActive = FALSE]
    /\ players' = <<>>
    /\ projectiles' = <<>>
    /\ mode' = MODE_TEST
    /\ tickCount' = 0
    /\ tickInterval' = NoTimer
    /\ onStateUpdate' = FALSE
    /\ battleLog' = <<>>
    /\ winner' = Null
    /\ submitted' = [id \in PlayerIds |-> <<>>]
    /\ called("doReset", "none")
    /\ UNCHANGED <<nanBlocks, budget, horizon, throws, client, serial>>

\* engine.onStateUpdate = a consumer that throws
setOnStateUpdateThrowing ==
    /\ ~onStateUpdate
    /\ onStateUpdate' = TRUE
    /\ throws' = TRUE
    /\ called("onStateUpdate", "none")
    /\ UNCHANGED <<players, projectiles, mode, tickCount, tickInterval, battleLog, winner,
                   timers, due, nanBlocks, budget, horizon, orch, client, serial, submitted>>

\* ------------------------------------------------------- specification
\* new GameEngine()
Init ==
    /\ players = <<>>
    /\ projectiles = <<>>
    /\ mode = MODE_TEST
    /\ tickCount = 0
    /\ tickInterval = NoTimer
    /\ onStateUpdate = FALSE
    /\ battleLog = <<>>
    /\ winner = Null
    /\ timers = {}
    /\ due = {}
    /\ nanBlocks = FALSE
    /\ budget = MaxQueued
    /\ horizon = MaxTick
    /\ throws = FALSE
    /\ orch = NoServer
    /\ client = NoClient
    /\ serial = 0
    /\ submitted = [id \in PlayerIds |-> <<>>]
    /\ resolved = <<>>
    /\ emitted = <<>>
    /\ ret = [op |-> "new", res |-> "none", running |-> FALSE, pending |-> FALSE]

Next ==
    \/ registerPlayerCall
    \/ \E playerId \in PlayerIds : removePlayer(playerId)
    \/ \E playerId \in PlayerIds, in \in LifeInputs : submitAction(playerId, in)
    \/ startBattle
    \/ startSandbox
    \/ stopBattle
    \/ stopTickLoopCall
    \/ resetToLobby
    \/ setOnStateUpdate
    \/ \E h \in timers : timerElapses(h)
    \/ \E h \in due : tick(h)

Spec == Init /\ [][Next]_vars

\* A sandbox engine with two registered players, as registerPlayer twice and
\* startSandbox leave it.
InitActions ==
    /\ players = <<NewPlayer("p1", "alice", SpawnPoints[1][1], SpawnPoints[1][2]),
                   NewPlayer("p2", "bob", SpawnPoints[2][1], SpawnPoints[2][2])>>
    /\ projectiles = <<>>
    /\ mode = MODE_TEST
    /\ tickCount = 0
    /\ tickInterval = 1
    /\ onStateUpdate = FALSE
    /\ battleLog = <<>>
    /\ winner = Null
    /\ timers = {1}
    /\ due = {}
    /\ nanBlocks = FALSE
    /\ budget = MaxSubmits
    /\ horizon = MaxTick
    /\ throws = FALSE
    /\ orch = NoServer
    /\ client = NoClient
    /\ serial = 0
    /\ submitted = [id \in PlayerIds |-> <<>>]
    /\ resolved = <<>>
    /\ emitted = <<>>
    /\ ret = [op |-> "startSandbox", res |-> "none", running |-> FALSE, pending |-> FALSE]

NextActions ==
    \/ \E playerId \in PlayerIds, in \in ActionInputs : submitAction(playerId, in)
    \/ \E playerId \in PlayerIds : removePlayer(playerId)
    \/ startBattle
    \/ resetToLobby
    \/ startSandbox
    \/ \E h \in timers : timerElapses(h)
    \/ \E h \in due : tick(h)

SpecActions == InitActions /\ [][NextActions]_vars

\* the two players of a new sandbox, as registerPlayer twice leaves them
TwoPlayers ==
    <<NewPlayer("p1", "alice", SpawnPoints[1][1], SpawnPoints[1][2]),
      NewPlayer("p2", "bob", SpawnPoints[2][1], SpawnPoints[2][2])>>

MoveLeft == [action |-> "move", direction |-> "left", angle |-> <<>>]

\* alice walks left for two ticks and bob for n, over eight ticks
WalkScript(n) ==
    [r \in 1..8 |-> <<IF r <= 2 THEN <<MoveLeft>> ELSE <<>>,
                      IF r <= n THEN <<MoveLeft>> ELSE <<>>>>]

\* the moves the model draws from
MoveInputs ==
    { [action |-> "move", direction |-> "right", angle |-> <<>>],
      [action |-> "move", direction |-> "left", angle |-> <<>>],
      [action |-> "move", direction |-> "", angle |-> <<-270>>],
      [action |-> "move", direction |-> "up", angle |-> <<180>>],
      [action |-> "move", direction |-> "left", angle |-> <<NaN>>] }

\* A sandbox whose two players have walked up to each other: alice stands
\* next to the left wall, bob one step or two steps to her right.
InitMoves ==
    /\ \E n \in {7, 8} : players = fastForward(TwoPlayers, <<>>, WalkScript(n)).players
    /\ projectiles = <<>>
    /\ mode = MODE_TEST
    /\ tickCount = 8
    /\ tickInterval = 1
    /\ onStateUpdate = FALSE
    /\ battleLog = <<>>
    /\ winner = Null
    /\ timers = {1}
    /\ due = {}
    /\ nanBlocks \in BOOLEAN
    /\ budget = MaxSubmits
    /\ horizon = 8 + MaxTick
    /\ throws = FALSE
    /\ orch = NoServer
    /\ client = NoClient
    /\ serial = 0
    /\ submitted = [id \in PlayerIds |-> <<>>]
    /\ resolved = <<>>
    /\ emitted = <<>>
    /\ ret = [op |-> "tick", res |-> "none", running |-> TRUE, pending |-> TRUE]

NextMoves ==
    \/ \E playerId \in PlayerIds, in \in MoveInputs : submitAction(playerId, in)
    \/ \E h \in timers : timerElapses(h)
    \/ \E h \in due : tick(h)

SpecMoves == InitMoves /\ [][NextMoves]_vars

\* the player of a new sandbox, as registerPlayer leaves it
OnePlayer == <<NewPlayer("p1", "alice", SpawnPoints[1][1], SpawnPoints[1][2])>>

ShootRight == [action |-> "shoot", direction |-> "right", angle |-> <<>>]
Reload == [action |-> "reload", direction |-> "", angle |-> <<>>]

\* the player shoots for the first ticks, reloads for the next, then waits
CombatScript(shots, reloads, idle) ==
    [r \in 1..(shots + reloads + idle) |->
        <<IF r <= shots THEN <<ShootRight>>
          ELSE IF r <= shots + reloads THEN <<Reload>> ELSE <<>>>>]

\* the pasts the runs start from: a new sandbox; the magazine shot empty; the
\* magazine shot empty, reloaded and the cooldown over; and one projectile
\* two ticks before the end of its lifetime
CombatPasts ==
    { <<0, 0, 0>>,
      <<PLAYER_AMMO, 0, 0>>,
      <<PLAYER_AMMO, 1, RELOAD_COOLDOWN_TICKS - 1>>,
      <<1, 0, BULLET_MAX_LIFETIME_TICKS - 3>> }

\* the shots and reloads the model draws from
CombatInputs ==
    { ShootRight,
      [action |-> "shoot", direction |-> "", angle |-> <<270>>],
      Reload }

\* The sandbox of one player after one of the pasts.
InitCombat ==
    /\ nanBlocks \in BOOLEAN
    /\ \E past \in CombatPasts :
          LET script == CombatScript(past[1], past[2], past[3])
              now == fastForward(OnePlayer, <<>>, script)
          IN  /\ players = now.players
              /\ projectiles = now.projectiles
              /\ tickCount = Len(script)
              /\ horizon = Len(script) + MaxTick
    /\ mode = MODE_TEST
    /\ tickInterval = 1
    /\ onStateUpdate = FALSE
    /\ battleLog = <<>>
    /\ winner = Null
    /\ timers = {1}
    /\ due = {}
    /\ budget = MaxSubmits
    /\ throws = FALSE
    /\ orch = NoServer
    /\ client = NoClient
    /\ serial = 0
    /\ submitted = [id \in PlayerIds |-> <<>>]
    /\ resolved = <<>>
    /\ emitted = <<>>
    /\ ret = [op |-> "startSandbox", res |-> "none", running |-> FALSE, pending |-> FALSE]

NextCombat ==
    \/ \E playerId \in PlayerIds, in \in CombatInputs : submitAction(playerId, in)
    \/ \E h \in timers : timerElapses(h)
    \/ \E h \in due : tick(h)

SpecCombat == InitCombat /\ [][NextCombat]_vars

\* the registrations of the lobby: those of RegisterInputs, and a username
\* that differs from another in case only
LobbyRegisterInputs == RegisterInputs \cup {<<"Alice", Null>>}

registerPlayerLobby ==
    /\ \E in \in LobbyRegisterInputs : registerPlayer(in[1], in[2])
    /\ UNCHANGED <<projectiles, mode, tickCount, tickInterval, onStateUpdate, battleLog,
                   winner, timers, due, nanBlocks, budget, horizon, throws, orch, client, serial>>

NextLobby ==
    \/ registerPlayerLobby
    \/ \E playerId \in PlayerIds : removePlayer(playerId)
    \/ startBattle
    \/ resetToLobby
    \/ \E h \in timers : timerElapses(h)
    \/ \E h \in due : tick(h)

\* A new engine whose players register, leave and fight; the runtime lets an
\* active interval elapse and runs a pending firing (setInterval).
SpecLobby ==
    /\ Init
    /\ [][NextLobby]_vars
    /\ WF_vars(\E h \in timers : timerElapses(h))
    /\ WF_vars(\E h \in due : tick(h))

\* the pasts of a reload: all shots but one fired, then a reload that
\* succeeds in tick PLAYER_AMMO, then no tick, or all but two, or all but one
\* of the RELOAD_COOLDOWN_TICKS ticks that follow
CooldownPasts ==
    { <<PLAYER_AMMO - 1, 1, 0>>,
      <<PLAYER_AMMO - 1, 1, RELOAD_COOLDOWN_TICKS - 2>>,
      <<PLAYER_AMMO - 1, 1, RELOAD_COOLDOWN_TICKS - 1>> }

\* what the player submits during and after the cooldown
CooldownInputs ==
    { ShootRight, Reload, [action |-> "move", direction |-> "right", angle |-> <<>>] }

\* The sandbox of one player whose reload succeeded in tick PLAYER_AMMO.
InitCooldown ==
    /\ nanBlocks \in BOOLEAN
    /\ \E past \in CooldownPasts :
          LET script == CombatScript(past[1], past[2], past[3])
              now == fastForward(OnePlayer, <<>>, script)
          IN  /\ players = now.players
              /\ projectiles = now.projectiles
              /\ tickCount = Len(script)
              /\ horizon = Len(script) + MaxTick
    /\ mode = MODE_TEST
    /\ tickInterval = 1
    /\ onStateUpdate = FALSE
    /\ battleLog = <<>>
    /\ winner = Null
    /\ timers = {1}
    /\ due = {}
    /\ budget = MaxSubmits
    /\ throws = FALSE
    /\ orch = NoServer
    /\ client = NoClient
    /\ serial = 0
    /\ submitted = [id \in PlayerIds |-> <<>>]
    /\ resolved = <<>>
    /\ emitted = <<>>
    /\ ret = [op |-> "tick", res |-> "none", running |-> TRUE, pending |-> TRUE]

NextCooldown ==
    \/ \E playerId \in PlayerIds, in \in CooldownInputs : submitAction(playerId, in)
    \/ \E h \in timers : timerElapses(h)
    \/ \E h \in due : tick(h)

SpecCooldown == InitCooldown /\ [][NextCooldown]_vars

\* The engine with a callback that may throw; nothing runs once the process
\* has exited.
Running == ret.res # "exit"

NextCallback ==
    \/ Running /\ registerPlayerCall
    \/ Running /\ \E playerId \in PlayerIds : removePlayer(playerId)
    \/ Running /\ \E playerId \in PlayerIds, in \in LifeInputs : submitAction(playerId, in)
    \/ Running /\ startBattle
    \/ Running /\ startSandbox
    \/ Running /\ stopBattle
    \/ Running /\ resetToLobby
    \/ Running /\ setOnStateUpdate
    \/ Running /\ setOnStateUpdateThrowing
    \/ \E h \in timers : timerElapses(h)
    \/ \E h \in due : tick(h)

SpecCallback == Init /\ [][NextCallback]_vars

\* the registries the server is followed from: no player, one, or two
RegistryPasts ==
    { <<>>,
      <<[id |-> "p1", username |-> "alice"]>>,
      <<[id |-> "p1", username |-> "alice"], [id |-> "p2", username |-> "bob"]>> }

\* The server before its first battle: no battle engine, battleActive false.
InitServer ==
    /\ players = <<>>
    /\ projectiles = <<>>
    /\ mode = MODE_TEST
    /\ tickCount = 0
    /\ tickInterval = NoTimer
    /\ onStateUpdate = FALSE
    /\ battleLog = <<>>
    /\ winner = Null
    /\ timers = {}
    /\ due = {}
    /\ nanBlocks = FALSE
    /\ budget = MaxSubmits
    /\ horizon = MaxTick
    /\ throws = FALSE
    /\ \E registry \in RegistryPasts : orch = [NoServer EXCEPT !.registry = registry]
    /\ client = NoClient
    /\ serial = 0
    /\ submitted = [id \in PlayerIds |-> <<>>]
    /\ resolved = <<>>
    /\ emitted = <<>>
    /\ ret = [op |-> "new", res |-> "none", running |-> FALSE, pending |-> FALSE]

\* The battle engine as the server drives it; actions reach it through
\* getEngineForPlayer only while there is one.
NextServer ==
    \/ doStartBattle
    \/ doReset
    \/ orch.battleEngine /\ \E playerId \in PlayerIds, in \in LifeInputs : submitAction(playerId, in)
    \/ \E h \in timers : timerElapses(h)
    \/ \E h \in due : tick(h)

SpecServer == InitServer /\ [][NextServer]_vars

\* A started sandbox whose players act and which is reset to the lobby
\* state; the runtime lets the interval elapse and runs a pending firing.
NextLife ==
    \/ \E playerId \in PlayerIds, in \in LifeInputs : submitAction(playerId, in)
    \/ resetToLobby
    \/ \E h \in timers : timerElapses(h)
    \/ \E h \in due : tick(h)

SpecLife ==
    /\ InitActions
    /\ [][NextLife]_vars
    /\ WF_vars(\E h \in timers : timerElapses(h))
    /\ WF_vars(\E h \in due : tick(h))

\* ------------------------------------------------------ control client
\* the least handle the browser has not in use for a timeout of the client
freshTimeout(c) ==
    LET used == {t.h : t \in c.timeouts}
    IN  CHOOSE h \in 1..(Cardinality(used) + 1) : h \notin used /\ \A k \in 1..(h - 1) : k \in used

\* scheduleRetry() that stacks a retry on the pending one
scheduleRetryStack(c, act) ==
    LET h == freshTimeout(c)
    IN  [c EXCEPT !.pendingRetry = h, !.timeouts = @ \cup {[h |-> h, act |-> act]}]

\* scheduleRetry(action, direction, angle)
scheduleRetry(c, act) ==
    IF c.pendingRetry # NoTimer THEN c
    ELSE LET h == freshTimeout(c)
         IN  [c EXCEPT !.pendingRetry = h, !.timeouts = @ \cup {[h |-> h, act |-> act]}]

\* sendAction(action, direction, angle) up to its await: the client after
\* it and what it did: nothing, a retry asked for, or a request sent
sendAction(c, act) ==
    IF ~c.playerId THEN [client |-> c, out |-> "none"]
    ELSE IF ~c.alive THEN [client |-> c, out |-> "none"]
    ELSE IF act.action = "shoot" /\ ~c.ammo THEN [client |-> c, out |-> "none"]
    ELSE IF act.action = "reload" /\ c.reloadCd
    THEN [client |-> scheduleRetry(c, act), out |-> "queued"]
    ELSE [client |-> [c EXCEPT !.inflight = Append(@, act)], out |-> "sent"]

\* the actions the keys of the client send
ClientActs ==
    { [action |-> "move", direction |-> "up"],
      [action |-> "move", direction |-> "left"],
      [action |-> "shoot", direction |-> "right"],
      [action |-> "reload", direction |-> ""] }

\* what the server's state tells the client about its player: alive, ammo
\* left, reload cooldown running
LocalStates ==
    { [alive |-> TRUE, ammo |-> TRUE, reloadCd |-> FALSE],
      [alive |-> TRUE, ammo |-> TRUE, reloadCd |-> TRUE],
      [alive |-> TRUE, ammo |-> FALSE, reloadCd |-> FALSE],
      [alive |-> FALSE, ammo |-> TRUE, reloadCd |-> FALSE] }

\* the ways a request to /action comes back: success, rate limited, an error
\* that names the cooldown, another error, no answer
Responses == {"ok", "429", "cooldown", "error", "network"}

\* a step of the client leaves the engine and the server alone
clientStep(c, op, act, out) ==
    /\ client' = [c EXCEPT !.last = [op |-> op, act |-> act, out |-> out]]
    /\ UNCHANGED <<players, projectiles, mode, tickCount, tickInterval, onStateUpdate,
                   battleLog, winner, timers, due, nanBlocks, budget, horizon, throws, orch,
                   serial, submitted, resolved, emitted, ret>>

\* doRegister() and enterGame(): the client has a player id
doRegister ==
    /\ ~client.playerId
    /\ clientStep([client EXCEPT !.playerId = TRUE], "register", <<>>, "none")

\* doDisconnect()
doDisconnect ==
    /\ client.playerId
    /\ clientStep([client EXCEPT !.playerId = FALSE], "disconnect", <<>>, "none")

\* applyState(data), from the poller
applyState(st) ==
    /\ client.playerId
    /\ clientStep([client EXCEPT !.alive = st.alive, !.ammo = st.ammo, !.reloadCd = st.reloadCd],
                  "applyState", <<>>, "none")

\* a key or the aim pad calls sendAction
keySends(act) ==
    LET r == sendAction(client, act)
    IN  /\ Len(r.client.inflight) <= MaxInFlight
        /\ clientStep(r.client, "key", act, r.out)

\* the answer to the i-th request under way arrives and sendAction goes on
\* after its await
actionResponds(i, status, st) ==
    /\ i \in 1..Len(client.inflight)
    /\ LET act == client.inflight[i]
           rest == [client EXCEPT !.inflight = SubSeq(@, 1, i - 1) \o SubSeq(@, i + 1, Len(@))]
           after == IF status \in {"429", "cooldown"} THEN scheduleRetry(rest, act)
                    ELSE IF status = "ok"
                    THEN [rest EXCEPT !.alive = st.alive, !.ammo = st.ammo, !.reloadCd = st.reloadCd]
                    ELSE rest
       IN  clientStep(after, "response", act, status)

\* the timeout t of scheduleRetry fires
retryFires(t) ==
    /\ t \in client.timeouts
    /\ LET fired == [client EXCEPT !.timeouts = @ \ {t}, !.pendingRetry = NoTimer]
           r == sendAction(fired, t.act)
       IN  /\ Len(r.client.inflight) <= MaxInFlight
           /\ clientStep(r.client, "retry", t.act, r.out)

NextClient ==
    \/ doRegister
    \/ doDisconnect
    \/ \E st \in LocalStates : applyState(st)
    \/ \E act \in ClientActs : keySends(act)
    \/ \E i \in 1..MaxInFlight, status \in Responses, st \in LocalStates :
          /\ status # "ok" => st = [alive |-> client.alive, ammo |-> client.ammo,
                                    reloadCd |-> client.reloadCd]
          /\ actionResponds(i, status, st)
    \/ \E t \in client.timeouts : retryFires(t)

\* The control client next to an engine that nothing drives.
SpecClient == Init /\ [][NextClient]_vars

\* ---------------------------------------------------------- properties
\* the step is a tick: only _tick increments the tick counter
IsTick == tickCount' = tickCount + 1
\* the last step was the tick that ended the battle
Ended == ret.op = "tick" /\ ret.res = "ended"
\* the places of the living players
AliveIdx == {k \in 1..Len(players) : players[k].alive}
\* the winner is the first, in insertion order, of the players with the top hp
WinnerIsFirstTop ==
    \E k \in 1..Len(players) :
        /\ winner = players[k].id
        /\ \A m \in 1..Len(players) : players[k].hp >= players[m].hp
        /\ \A m \in 1..(k - 1) : players[m].hp < players[k].hp

\* C2 as stated: when a battle ends, the winner is the sole living player if
\* exactly one player is alive, and otherwise the first registered player, in
\* insertion order, whose hp is maximal among all registered players.
C2_WinnerWhenEnded ==
    Ended =>
        IF Cardinality(AliveIdx) = 1
        THEN \E k \in AliveIdx : winner = players[k].id
        ELSE WinnerIsFirstTop

\* C2 amended: as C2, when at least one player is registered at the end of the
\* battle; with no player registered the winner is undefined.
C2_WinnerWhenEndedOrNone ==
    Ended =>
        IF players = <<>> THEN winner = Undefined
        ELSE IF Cardinality(AliveIdx) = 1
        THEN \E k \in AliveIdx : winner = players[k].id
        ELSE WinnerIsFirstTop

\* a battle of two living players has ended at the time limit
C2_Witness ==
    /\ Ended
    /\ Len(players) = 2
    /\ Cardinality(AliveIdx) = 2
    /\ winner = players[1].id

\* C3: a battle that ends through the win condition or the time limit passes
\* exactly one snapshot with mode finished to the state-update callback.
C3_FinalSnapshotOnce ==
    (Ended /\ onStateUpdate) =>
        Cardinality({k \in 1..Len(emitted) : emitted[k].mode = MODE_FINISHED}) = 1

\* C4: the engine has at most one active interval, the one its tickInterval
\* names, and at most one firing of it is pending.
C4_OneTimer ==
    /\ Cardinality(timers) <= 1
    /\ due \subseteq timers
    /\ timers = IF tickInterval = NoTimer THEN {} ELSE {tickInterval}

\* a loop was started while one was running with a firing pending
C4_Witness ==
    /\ ret.op \in {"startBattle", "startSandbox"}
    /\ ret.res # "error"
    /\ ret.running
    /\ ret.pending
    /\ Cardinality(timers) = 1
    /\ due = {}

\* C5: with the loop stopped no interval is active and no firing is pending,
\* a tick runs only for a running loop, and _stopTickLoop on a stopped loop
\* changes nothing.
C5_StoppedMeansNoTick ==
    /\ [](tickInterval = NoTimer => timers = {} /\ due = {})
    /\ [][IsTick => tickInterval # NoTimer /\ tickInterval \in due]_vars
    /\ [][(ret'.op = "_stopTickLoop" /\ tickInterval = NoTimer)
            => UNCHANGED <<engine, timers, due>>]_vars

\* _stopTickLoop has cancelled a loop whose firing was pending
C5_Witness ==
    /\ ret.op = "_stopTickLoop"
    /\ ret.running
    /\ ret.pending
    /\ tickInterval = NoTimer
    /\ due = {}

\* C6 as stated: in mode finished the loop is stopped and the winner is set.
C6_FinishedHasWinner ==
    mode = MODE_FINISHED => tickInterval = NoTimer /\ winner \notin {Null, Undefined}

\* C6 amended: in mode finished the loop is stopped; a battle that ends by the
\* win condition or the time limit with a player registered sets the winner to
\* a registered player; and while the mode is finished the winner changes only
\* by startBattle or resetToLobby.
C6_FinishedStoppedWinnerKept ==
    /\ [](mode = MODE_FINISHED => tickInterval = NoTimer /\ timers = {})
    /\ [][(ret'.op = "tick" /\ ret'.res = "ended" /\ players' # <<>>)
            => \E k \in 1..Len(players') : winner' = players'[k].id]_vars
    /\ [][(mode = MODE_FINISHED /\ winner' # winner)
            => ret'.op \in {"startBattle", "resetToLobby"}]_vars

\* the winner is still in place after an operation on the finished engine
C6_Witness ==
    /\ mode = MODE_FINISHED
    /\ winner \in PlayerIds
    /\ ret.op = "removePlayer"
    /\ tickInterval = NoTimer

\* C7 as stated: the mode changes only from test to battle by startBattle,
\* from battle to finished by the win condition or the time limit, and from
\* finished to test by resetToLobby.
C7_ModeEdges ==
    [][mode' # mode =>
        \/ mode = MODE_TEST /\ mode' = MODE_BATTLE /\ ret'.op = "startBattle"
        \/ mode = MODE_BATTLE /\ mode' = MODE_FINISHED /\ ret'.op = "tick"
        \/ mode = MODE_FINISHED /\ mode' = MODE_TEST /\ ret'.op = "resetToLobby"]_vars

\* C7 amended: the mode changes only to battle by a successful startBattle
\* (from any mode), from battle to finished by the win condition or the time
\* limit in a tick, to finished by stopBattle (from any mode), and to test by
\* resetToLobby or startSandbox (from any mode).
C7_ModeEdgesOfTheCode ==
    [][mode' # mode =>
        \/ mode' = MODE_BATTLE /\ ret'.op = "startBattle" /\ ret'.res = "ok"
        \/ mode = MODE_BATTLE /\ mode' = MODE_FINISHED /\ ret'.op = "tick" /\ ret'.res = "ended"
        \/ mode' = MODE_FINISHED /\ ret'.op = "stopBattle"
        \/ mode' = MODE_TEST /\ ret'.op \in {"resetToLobby", "startSandbox"}]_vars

\* stopBattle has taken an engine with a running loop to mode finished
C7_Witness ==
    /\ mode = MODE_FINISHED
    /\ ret.op = "stopBattle"
    /\ ret.running
    /\ tickInterval = NoTimer

\* C8: startBattle on an engine whose mode is battle, or without a registered
\* player, returns an error and leaves mode, tick counter, winner, battle
\* log, players and projectiles unchanged.
C8_StartBattleRejected ==
    [][(ret'.op = "startBattle" /\ (mode = MODE_BATTLE \/ Len(players) = 0))
        => /\ ret'.res = "error"
           /\ UNCHANGED <<mode, tickCount, winner, battleLog, players, projectiles>>]_vars

\* C9: a tick resolves at most one action for a player, and it is the last
\* of the submissions accepted for that player since its last resolved one.
C9_LastSubmissionWins ==
    [][IsTick =>
        /\ \A k, m \in 1..Len(resolved') : resolved'[k].player = resolved'[m].player => k = m
        /\ \A k \in 1..Len(resolved') :
              LET sub == submitted[resolved'[k].player]
              IN  sub # <<>> /\ resolved'[k].action = sub[Len(sub)]]_vars

\* a tick has resolved the second of two different submissions of a player
C9_Witness ==
    /\ ret.op = "tick"
    /\ \E k \in 1..Len(resolved) : resolved[k].outOf = 2 /\ resolved[k].action.action = "reload"

\* C10: every action a tick resolves is an accepted submission that no earlier
\* tick has resolved, and the tick leaves the slot of its player empty.
C10_ResolvedOnce ==
    [][IsTick =>
        \A k \in 1..Len(resolved') :
            /\ submitted[resolved'[k].player] # <<>>
            /\ \A i \in 1..Len(players') :
                  players'[i].id = resolved'[k].player => players'[i].pendingAction = <<>>]_vars

\* a tick has found nothing to resolve after an earlier tick resolved the
\* only submission
C10_Witness ==
    /\ ret.op = "tick"
    /\ resolved = <<>>
    /\ serial >= 1
    /\ tickCount >= 2
    /\ Len(players) = 2
    /\ \A id \in PlayerIds : submitted[id] = <<>>

\* no living player is blocked by the arena, no two living players overlap
PlayersClear ==
    /\ \A k \in AliveIdx : ~isBlocked(players[k].x, players[k].y, PLAYER_SIZE)
    /\ \A k, m \in AliveIdx :
          k # m => ~HypotLt(Sub(players[k].x, players[m].x), Sub(players[k].y, players[m].y),
                            PLAYER_SIZE + PLAYER_SIZE)

\* where the action queued for player p would take it, its place when none is
MoveTarget(p) ==
    IF p.pendingAction = <<>> \/ p.pendingAction[1].action # "move" THEN <<p.x, p.y>>
    ELSE LET d == actionVector(p.pendingAction[1].direction, p.pendingAction[1].angle)
         IN  IF d = <<>> THEN <<p.x, p.y>>
             ELSE <<Add(p.x, Mul(d[1], PLAYER_SPEED)), Add(p.y, Mul(d[2], PLAYER_SPEED))>>

\* C11: from a placement in which no living player is blocked or overlaps
\* another, after every tick no living player is blocked by the arena at its
\* radius and no two living players overlap; and a tick leaves every player
\* either where it was or at the full displacement of its move.
C11_MovesKeepClear ==
    /\ []PlayersClear
    /\ [][IsTick =>
            \A k \in 1..Len(players) :
                \/ players'[k].x = players[k].x /\ players'[k].y = players[k].y
                \/ <<players'[k].x, players'[k].y>> = MoveTarget(players[k])]_vars

\* the first tick has resolved alice's step to the right, onto bob, and has
\* left her where she stood
C11_Witness ==
    /\ ret.op = "tick"
    /\ tickCount = 9
    /\ Len(resolved) = 1
    /\ resolved[1].player = "p1"
    /\ resolved[1].action.direction = "right"
    /\ players[1].x = 20
    /\ players[2].x = 30

\* player k has the action act queued and is alive: the coming tick resolves it
Resolves(k, act) ==
    /\ players[k].alive
    /\ players[k].pendingAction # <<>>
    /\ players[k].pendingAction[1].action = act

\* C12: at every tick boundary every player id owns at most
\* MAX_BULLETS_PER_PLAYER live projectiles.
C12_BulletCap ==
    \A id \in PlayerIds : bulletCount(projectiles, id) <= MAX_BULLETS_PER_PLAYER

\* with the magazine reloaded and five projectiles in flight, the tick after
\* the cooldown has resolved a shot and has created nothing
C12_Witness ==
    /\ ret.op = "tick"
    /\ tickCount = PLAYER_AMMO + RELOAD_COOLDOWN_TICKS + 1
    /\ \E k \in 1..Len(resolved) : resolved[k].player = "p1" /\ resolved[k].action.action = "shoot"
    /\ players[1].ammo = PLAYER_MAX_AMMO
    /\ bulletCount(projectiles, "p1") = MAX_BULLETS_PER_PLAYER

\* C13: no projectile that is dead or has lived its lifetime is in the
\* collection at a tick boundary, and ticksLived counts the ticks since the
\* creation: a projectile a tick leaves behind is new, with ticksLived 1, or is
\* one the tick found, moved by its velocity and one tick older.
C13_Lifetime ==
    /\ [](\A k \in 1..Len(projectiles) :
            projectiles[k].alive /\ projectiles[k].ticksLived < projectiles[k].maxLifetime)
    /\ [][IsTick =>
            \A k \in 1..Len(projectiles') :
                \/ projectiles'[k].ticksLived = 1
                \/ \E j \in 1..Len(projectiles) :
                      projectiles'[k] = [projectiles[j] EXCEPT
                                            !.x = Add(projectiles[j].x, projectiles[j].dx),
                                            !.y = Add(projectiles[j].y, projectiles[j].dy),
                                            !.ticksLived = @ + 1]]_vars

\* the projectile shot in tick 1 is gone after the tick in which its
\* ticksLived reached the lifetime, without a wall, a hit or a reset
C13_Witness ==
    /\ ret.op = "tick"
    /\ tickCount = BULLET_MAX_LIFETIME_TICKS
    /\ ~nanBlocks
    /\ serial = 0
    /\ players[1].ammo = PLAYER_AMMO - 1
    /\ projectiles = <<>>

\* C14: the ammo of every player is at least 0, and a tick that resolves a
\* shoot of a player with ammo 0 leaves the ammo at 0 and creates no
\* projectile of that player.
C14_NoShotWithoutAmmo ==
    /\ [](\A k \in 1..Len(players) : players[k].ammo >= 0)
    /\ [][IsTick =>
            \A k \in 1..Len(players) :
                (Resolves(k, "shoot") /\ players[k].ammo = 0) =>
                    /\ players'[k].ammo = 0
                    /\ bulletCount(projectiles', players[k].id) <= bulletCount(projectiles, players[k].id)
                    /\ \A j \in 1..Len(projectiles') :
                          projectiles'[j].ownerId = players[k].id => projectiles'[j].ticksLived > 1]_vars

\* the first tick after the magazine was shot empty has resolved a shot
C14_Witness ==
    /\ ret.op = "tick"
    /\ tickCount = PLAYER_AMMO + 1
    /\ \E k \in 1..Len(resolved) : resolved[k].player = "p1" /\ resolved[k].action.action = "shoot"
    /\ players[1].ammo = 0
    /\ Len(projectiles) <= PLAYER_AMMO

\* C15: the ammo of every player is at most maxAmmo; a tick that resolves a
\* reload during the cooldown leaves the ammo as it is and the cooldown to
\* run on; one that resolves a reload with the cooldown over and ammo below
\* maxAmmo raises the ammo by RELOAD_AMOUNT, capped at maxAmmo, and starts the
\* cooldown (of which the tick itself is the first).
C15_Reload ==
    /\ [](\A k \in 1..Len(players) : players[k].ammo <= PLAYER_MAX_AMMO)
    /\ [][IsTick =>
            \A k \in 1..Len(players) :
                Resolves(k, "reload") =>
                    IF players[k].reloadCooldown > 0
                    THEN /\ players'[k].ammo = players[k].ammo
                         /\ players'[k].reloadCooldown = players[k].reloadCooldown - 1
                    ELSE IF players[k].ammo < PLAYER_MAX_AMMO
                    THEN /\ players'[k].ammo = Min(PLAYER_MAX_AMMO, players[k].ammo + RELOAD_AMOUNT)
                         /\ players'[k].reloadCooldown = RELOAD_COOLDOWN_TICKS - 1
                    ELSE /\ players'[k].ammo = players[k].ammo
                         /\ players'[k].reloadCooldown = 0]_vars

\* a tick has resolved a reload in the second tick of a cooldown
C15_Witness ==
    /\ ret.op = "tick"
    /\ \E k \in 1..Len(resolved) : resolved[k].player = "p1" /\ resolved[k].action.action = "reload"
    /\ players[1].reloadCooldown = RELOAD_COOLDOWN_TICKS - 2
    /\ players[1].ammo = PLAYER_MAX_AMMO

\* the path of projectile pr in the coming tick, from its position to the
\* next, passes within the radius of player p of its centre
PathCrosses(pr, p) ==
    pointSegDistLt(p.x, p.y, pr.x, pr.y, Add(pr.x, pr.dx), Add(pr.y, pr.dy), PLAYER_SIZE)

\* C16: if in a tick the path of a live projectile passes within the radius
\* of a living player other than its owner of that player's centre (closer,
\* then, than bulletRadius + playerRadius), the tick registers a hit: a
\* player loses hp and the projectile is gone from the collection.
C16_SweptHit ==
    [][IsTick =>
        \A j \in 1..Len(projectiles) : \A k \in 1..Len(players) :
            (/\ projectiles[j].alive
             /\ players[k].alive
             /\ players[k].id # projectiles[j].ownerId
             /\ PathCrosses(projectiles[j], players'[k]))
            => /\ \E m \in 1..Len(players) : players'[m].hp < players[m].hp
               /\ \A i \in 1..Len(projectiles') :
                     projectiles'[i] # projectileTick(projectiles[j])]_vars

\* C17: in a battle of two players, a shot whose path in a tick passes
\* through the opponent lowers the opponent's hp by BULLET_DAMAGE in that
\* tick and raises the shooter's damageDealt by the same amount.
C17_HitTakes25 ==
    [][(IsTick /\ mode = MODE_BATTLE /\ Len(players) = 2) =>
        \A j \in 1..Len(projectiles) : \A k, s \in 1..Len(players) :
            (/\ projectiles[j].alive
             /\ players[s].id = projectiles[j].ownerId
             /\ k # s
             /\ players[k].alive
             /\ PathCrosses(projectiles[j], players'[k]))
            => /\ players'[k].hp = players[k].hp - BULLET_DAMAGE
               /\ players'[s].damageDealt = players[s].damageDealt + BULLET_DAMAGE]_vars

\* C18: in an engine in which two players have been registered (every run of
\* SpecActions starts with them), a tick in battle mode that leaves at most
\* one living player ends the battle, also after removePlayer.
C18_LastOneStandingEnds ==
    [][(IsTick /\ mode = MODE_BATTLE
          /\ Cardinality({k \in 1..Len(players') : players'[k].alive}) <= 1)
        => mode' = MODE_FINISHED /\ ret'.res = "ended"]_vars

\* C19 as stated: in battle mode the tick counter does not exceed
\* MAX_BATTLE_DURATION_TICKS; the tick in which it reaches that maximum ends
\* the battle, whatever the number of players; and with the timer firing, a
\* battle leads to mode finished unless resetToLobby intervenes.
C19_BattleTerminates ==
    /\ [](mode = MODE_BATTLE => tickCount <= MAX_BATTLE_DURATION_TICKS)
    /\ [][(IsTick /\ mode = MODE_BATTLE /\ tickCount' >= MAX_BATTLE_DURATION_TICKS)
            => mode' = MODE_FINISHED]_vars
    /\ (mode = MODE_BATTLE) ~> (mode = MODE_FINISHED \/ ret.op = "resetToLobby")

\* what holds of the code: as C19, with a startBattle during the battle
\* counted among the resets.
C19_TerminatesUnlessRestarted ==
    /\ [](mode = MODE_BATTLE => tickCount <= MAX_BATTLE_DURATION_TICKS)
    /\ [][(IsTick /\ mode = MODE_BATTLE /\ tickCount' >= MAX_BATTLE_DURATION_TICKS)
            => mode' = MODE_FINISHED]_vars
    /\ (mode = MODE_BATTLE) ~>
            (mode = MODE_FINISHED \/ ret.op \in {"resetToLobby", "startBattle"})

\* C20: the usernames of an engine are pairwise distinct; a registerPlayer
\* that returns an error leaves the players as they are, and one that
\* succeeds adds (or puts in the place of a forced id) a player whose
\* username no player had, so a username already taken is always refused.
C20_UsernamesDistinct ==
    /\ [](\A k, m \in 1..Len(players) : players[k].username = players[m].username => k = m)
    /\ [][ret'.op = "registerPlayer" =>
            IF ret'.res = "error" THEN players' = players
            ELSE \E k \in 1..Len(players') :
                    /\ \A j \in 1..Len(players) : players[j].username # players'[k].username
                    /\ \A m \in 1..Len(players') :
                          m # k => \E j \in 1..Len(players) : players[j] = players'[m]]_vars

\* a registration was refused in an engine that holds "alice" and "Alice"
C20_Witness ==
    /\ ret.op = "registerPlayer"
    /\ ret.res = "error"
    /\ Len(players) = 2
    /\ {players[1].username, players[2].username} = {"alice", "Alice"}

\* C21: after removePlayer(id) the engine holds no player with that id and no
\* projectile owned by it; the other players and projectiles are the ones it
\* held, unchanged and in their order.
C21_RemoveCascades ==
    [][ret'.op = "removePlayer" =>
        \E id \in PlayerIds :
            /\ \A k \in 1..Len(players') : players'[k].id # id
            /\ \A j \in 1..Len(projectiles') : projectiles'[j].ownerId # id
            /\ players' = SelectSeq(players, LAMBDA p : p.id # id)
            /\ projectiles' = SelectSeq(projectiles, LAMBDA pr : pr.ownerId # id)]_vars

\* a player that owned a projectile was removed, and the projectile of the
\* other player is still in flight
C21_Witness ==
    /\ ret.op = "removePlayer"
    /\ ret.owned = 1
    /\ Len(players) = 1
    /\ Len(projectiles) = 1
    /\ projectiles[1].ownerId = players[1].id

\* an action of a known kind that, when it is a move or a shoot, has a
\* cardinal direction or a finite angle
WellFormed(act) ==
    /\ act.action \in {"move", "shoot", "reload"}
    /\ act.action \in {"move", "shoot"} =>
          \/ act.direction \in {"up", "down", "left", "right"}
          \/ act.angle # <<>> /\ act.angle[1] \in 0..359

C23_PolicyRejectionsSilent ==
    [][\A playerId \in PlayerIds : \A in \in CombatInputs \cup MoveInputs :
          (/\ submitAction(playerId, in)
           /\ \E k \in 1..Len(players) : players[k].id = playerId /\ players[k].alive)
          => ret'.res = "ok"]_vars

\* C27, as far as the engine comes: the statistics of a player never change
\* at all.  No projectile ever hits (C16), so every player keeps its hp, stays
\* alive, and its kills and damageDealt stay 0.
C27_StatsNeverMove ==
    \A k \in 1..Len(players) :
        /\ players[k].hp = PLAYER_HP
        /\ players[k].alive
        /\ players[k].kills = 0
        /\ players[k].damageDealt = 0

\* the shot of player k is refused by the cooldown or by the cap
ShotRefused(k) ==
    \/ players[k].reloadCooldown > 0
    \/ bulletCount(projectiles, players[k].id) >= MAX_BULLETS_PER_PLAYER

\* C24: a tick that resolves a shoot of a player whose reload cooldown is
\* active, or who has MAX_BULLETS_PER_PLAYER live projectiles, leaves the
\* ammo as it is and creates no projectile of that player; one that resolves
\* a shoot of a player with ammo, no cooldown and fewer live projectiles takes
\* exactly one from the ammo and creates exactly one projectile of that
\* player (which the same tick purges when the arena blocks it at once).
C24_ShootGuards ==
    [][IsTick =>
        \A k \in 1..Len(players) :
            Resolves(k, "shoot") =>
                LET fresh == {j \in 1..Len(projectiles') :
                                 /\ projectiles'[j].ownerId = players[k].id
                                 /\ projectiles'[j].ticksLived = 1}
                IN  IF ShotRefused(k)
                    THEN players'[k].ammo = players[k].ammo /\ fresh = {}
                    ELSE players[k].ammo > 0 =>
                            /\ players'[k].ammo = players[k].ammo - 1
                            /\ Cardinality(fresh) = IF nanBlocks THEN 0 ELSE 1]_vars

\* the tick after a reload has resolved a shot and has left the full
\* magazine as it was
C24_Witness ==
    /\ ret.op = "tick"
    /\ \E k \in 1..Len(resolved) : resolved[k].player = "p1" /\ resolved[k].action.action = "shoot"
    /\ players[1].reloadCooldown = RELOAD_COOLDOWN_TICKS - 2
    /\ players[1].ammo = PLAYER_MAX_AMMO
    /\ tickCount = PLAYER_AMMO + 2

\* the place the move queued for player k would take it to is free
TargetFree(k) ==
    LET t == MoveTarget(players[k])
    IN  /\ ~isBlocked(t[1], t[2], PLAYER_SIZE)
        /\ \A m \in 1..Len(players) :
              (m # k /\ players[m].alive) =>
                  ~HypotLt(Sub(t[1], players[m].x), Sub(t[2], players[m].y),
                           PLAYER_SIZE + PLAYER_SIZE)

\* C25 as stated: during the reload cooldown a move to a free place and a
\* shoot of a player with ammo and fewer than MAX_BULLETS_PER_PLAYER live
\* projectiles take effect.
C25_ActsDuringCooldown ==
    [][IsTick =>
        \A k \in 1..Len(players) :
            players[k].reloadCooldown > 0 =>
                /\ (Resolves(k, "move") /\ TargetFree(k))
                      => <<players'[k].x, players'[k].y>> = MoveTarget(players[k])
                /\ (/\ Resolves(k, "shoot")
                    /\ players[k].ammo > 0
                    /\ bulletCount(projectiles, players[k].id) < MAX_BULLETS_PER_PLAYER)
                      => players'[k].ammo = players[k].ammo - 1]_vars

\* C25 amended: during the reload cooldown a move to a free place takes
\* effect; a shoot and a reload do not.
C25_OnlyMoveDuringCooldown ==
    [][IsTick =>
        \A k \in 1..Len(players) :
            players[k].reloadCooldown > 0 =>
                /\ (Resolves(k, "move") /\ TargetFree(k))
                      => <<players'[k].x, players'[k].y>> = MoveTarget(players[k])
                /\ (Resolves(k, "shoot") \/ Resolves(k, "reload"))
                      => /\ players'[k].ammo = players[k].ammo
                         /\ Len(projectiles') <= Len(projectiles)
                         /\ players'[k].reloadCooldown = players[k].reloadCooldown - 1]_vars

\* the tick after the reload has resolved a step to the right and has
\* taken it
C25_Witness ==
    /\ ret.op = "tick"
    /\ tickCount = PLAYER_AMMO + 1
    /\ \E k \in 1..Len(resolved) : resolved[k].player = "p1" /\ resolved[k].action.action = "move"
    /\ players[1].reloadCooldown = RELOAD_COOLDOWN_TICKS - 2
    /\ players[1].x = SpawnPoints[1][1] + PLAYER_SPEED

\* C29: after the reload that succeeded in tick T = PLAYER_AMMO (every run of
\* SpecCooldown starts after it), a shoot or a reload resolved in one of the
\* ticks T+1 to T+RELOAD_COOLDOWN_TICKS is a no-op.
C29_CooldownTenTicks ==
    [][(IsTick /\ tickCount' \in (PLAYER_AMMO + 1)..(PLAYER_AMMO + RELOAD_COOLDOWN_TICKS)) =>
        \A k \in 1..Len(players) :
            (Resolves(k, "shoot") \/ Resolves(k, "reload")) =>
                /\ players'[k].ammo = players[k].ammo
                /\ Len(projectiles') <= Len(projectiles)]_vars

\* C26: no operation but a tick invokes the state-update callback, and a
\* tick with a callback installed invokes it exactly once.
C26_OncePerTick ==
    [][/\ IsTick => Len(emitted') = IF onStateUpdate THEN 1 ELSE 0
       /\ ~IsTick => emitted' = <<>>]_vars

\* C28: whatever the callback does, a tick leaves the players and the
\* projectiles as steps 1 to 6 compute them, and the loop of an engine that
\* the tick has not stopped is still an active interval of the runtime.
C28_CallbackCannotStall ==
    [][IsTick =>
        /\ players' = tickWorld(players, projectiles).players
        /\ projectiles' = tickWorld(players, projectiles).projectiles
        /\ tickInterval' # NoTimer => tickInterval' \in timers']_vars

\* C30: the runtime never holds more than one interval, and the one it holds
\* is the loop of the battle engine while battleActive; doStartBattle while
\* battleActive or with an empty registry returns an error and leaves engine,
\* intervals and server state as they are, and otherwise starts the one loop;
\* battleActive becomes false by doReset only; doReset cancels the interval
\* of the battle engine and drops the engine.
C30_OneBattleLoop ==
    /\ [](/\ Cardinality(timers) <= 1
          /\ timers # {} => (orch.battleEngine /\ orch.battleActive /\ timers = {tickInterval}))
    /\ [][ret'.op = "doStartBattle" =>
            IF orch.battleActive \/ Len(orch.registry) = 0
            THEN ret'.res = "error" /\ UNCHANGED <<engine, timers, due, orch>>
            ELSE ret'.res = "ok" /\ timers' = {tickInterval'} /\ orch'.battleActive]_vars
    /\ [][(orch.battleActive /\ ~orch'.battleActive) => ret'.op = "doReset"]_vars
    /\ [][ret'.op = "doReset" =>
            /\ timers' = timers \ {tickInterval}
            /\ ~orch'.battleEngine]_vars

\* doStartBattle was refused after the battle had finished and before a reset
C30_Witness ==
    /\ ret.op = "doStartBattle"
    /\ ret.res = "error"
    /\ mode = MODE_FINISHED
    /\ orch.battleActive
    /\ Len(orch.registry) = 2
    /\ timers = {}

\* where the shot queued for player p is after its first advance
FirstAdvance(p) ==
    LET d == actionVector(p.pendingAction[1].direction, p.pendingAction[1].angle)
    IN  <<Add(Add(p.x, Mul(d[1], SPAWN_OFFSET)), Mul(d[1], BULLET_SPEED)),
          Add(Add(p.y, Mul(d[2], SPAWN_OFFSET)), Mul(d[2], BULLET_SPEED))>>

\* C31: the consequences of the order of the phases of a tick. A projectile
\* fired in a tick has advanced once at the end of that tick, or is already
\* purged when the wall test of that tick destroyed it; a reload that
\* starts a cooldown leaves it decremented once; a shot or reload resolved
\* while one tick of cooldown is left is still refused, the decrement coming
\* after the actions.
C31_PhaseOrder ==
    [][IsTick =>
        \A k \in 1..Len(players) :
            /\ (Resolves(k, "shoot") /\ ~ShotRefused(k) /\ players[k].ammo > 0) =>
                  LET fresh == {j \in 1..Len(projectiles') :
                                   /\ projectiles'[j].ownerId = players[k].id
                                   /\ projectiles'[j].ticksLived <= 1}
                  IN  IF nanBlocks THEN fresh = {}
                      ELSE \E j \in fresh :
                              /\ fresh = {j}
                              /\ projectiles'[j].ticksLived = 1
                              /\ <<projectiles'[j].x, projectiles'[j].y>> = FirstAdvance(players[k])
            /\ (/\ Resolves(k, "reload")
                /\ players[k].reloadCooldown = 0
                /\ players[k].ammo < PLAYER_MAX_AMMO)
                  => players'[k].reloadCooldown = RELOAD_COOLDOWN_TICKS - 1
            /\ ((Resolves(k, "shoot") \/ Resolves(k, "reload")) /\ players[k].reloadCooldown = 1)
                  => /\ players'[k].ammo = players[k].ammo
                     /\ players'[k].reloadCooldown = 0]_vars

\* the shot refused with one tick of cooldown left was fired in the tick
\* after and has advanced once
C31_Witness ==
    /\ ret.op = "tick"
    /\ tickCount = PLAYER_AMMO + RELOAD_COOLDOWN_TICKS
    /\ ~nanBlocks
    /\ players[1].reloadCooldown = 0
    /\ players[1].ammo = PLAYER_MAX_AMMO - 1
    /\ Len(projectiles) = PLAYER_AMMO
    /\ projectiles[PLAYER_AMMO].ticksLived = 1
    /\ projectiles[PLAYER_AMMO].x = SpawnPoints[1][1] + SPAWN_OFFSET + BULLET_SPEED
    /\ serial = 2

\* the places of the players
Places(ps) == [k \in 1..Len(ps) |-> <<ps[k].x, ps[k].y>>]

\* both players are alive and have a move queued
BothMove == Len(players) = 2 /\ Resolves(1, "move") /\ Resolves(2, "move")

\* the place the move of player k goes to overlaps neither the place of
\* player m nor the place the move of player m goes to
Apart(k, m) ==
    LET t == MoveTarget(players[k])
        u == MoveTarget(players[m])
    IN  /\ ~HypotLt(Sub(t[1], players[m].x), Sub(t[2], players[m].y), PLAYER_SIZE + PLAYER_SIZE)
        /\ ~HypotLt(Sub(t[1], u[1]), Sub(t[2], u[2]), PLAYER_SIZE + PLAYER_SIZE)

C39_CoordinatesFinite ==
    /\ \A k \in 1..Len(players) :
          /\ IsNum(players[k].x) /\ IsNum(players[k].y)
          /\ (players[k].pendingAction # <<>> /\ players[k].pendingAction[1].action # "reload") =>
                LET a == players[k].pendingAction[1]
                IN  IF a.angle = <<>> THEN a.direction \in DOMAIN DIRECTIONS
                    ELSE IsNum(a.angle[1]) /\ a.angle[1] >= 0 /\ a.angle[1] < 360
    /\ \A j \in 1..Len(projectiles) : IsNum(projectiles[j].x) /\ IsNum(projectiles[j].y)

\* the living player id has an accepted action in its slot
Queued(id) ==
    \E k \in 1..Len(players) :
        players[k].id = id /\ players[k].alive /\ players[k].pendingAction # <<>>

\* C35: on a started engine in mode test or battle, an action accepted for a
\* living player is resolved by a later tick.
C35_AcceptedIsResolved ==
    \A id \in PlayerIds :
        (Queued(id) /\ mode \in {MODE_TEST, MODE_BATTLE} /\ tickCount < horizon)
            ~> ~Queued(id)

\* C36: the owner of every projectile of the engine is a registered player.
C36_OwnersRegistered ==
    \A j \in 1..Len(projectiles) :
        \E k \in 1..Len(players) : players[k].id = projectiles[j].ownerId

\* both players had a projectile in flight, alice was removed, and a tick
\* later bob's projectile is the only one
C36_Witness ==
    /\ ret.op = "tick"
    /\ Len(players) = 1
    /\ players[1].id = "p2"
    /\ Len(projectiles) = 1
    /\ projectiles[1].ownerId = "p2"
    /\ projectiles[1].ticksLived = 2
    /\ serial = 2

\* C38: a registerPlayer call that succeeds leaves one player more than
\* before and every player registered before as it was.
C38_RegisterAddsOne ==
    [][(ret'.op = "registerPlayer" /\ ret'.res = "ok") =>
          /\ Len(players') = Len(players) + 1
          /\ \A k \in 1..Len(players) : players'[k] = players[k]]_vars

\* what sendAction does with the action act in the client c: nothing, ask
\* for a retry, or send the request
Expected(c, act) ==
    IF ~c.playerId \/ ~c.alive \/ (act.action = "shoot" /\ ~c.ammo) THEN "none"
    ELSE IF act.action = "reload" /\ c.reloadCd THEN "queued"
    ELSE "sent"

\* C40: the client has at most one timeout set, the one pendingRetry names,
\* and none when pendingRetry is null; a step that is not the firing of the
\* timeout leaves a pending retry as it is, so scheduleRetry schedules
\* nothing then and nothing cancels the retry; the firing takes the timeout
\* away, clears the marker and calls sendAction with the action the retry
\* was scheduled for, which sends nothing without a player id, sends the
\* request of that action, or asks for the one new retry of that action.
C40_OneRetry ==
    /\ [](/\ Cardinality(client.timeouts) <= 1
          /\ client.pendingRetry = NoTimer <=> client.timeouts = {}
          /\ \A t \in client.timeouts : t.h = client.pendingRetry)
    /\ [][(client.pendingRetry # NoTimer /\ client'.last.op # "retry")
             => /\ client'.timeouts = client.timeouts
                /\ client'.pendingRetry = client.pendingRetry]_vars
    /\ [][client'.last.op = "retry" =>
            \E t \in client.timeouts :
                /\ t.h = client.pendingRetry
                /\ client'.last.act = t.act
                /\ client'.last.out = Expected(client, t.act)
                /\ client'.inflight = IF Expected(client, t.act) = "sent"
                                      THEN Append(client.inflight, t.act)
                                      ELSE client.inflight
                /\ IF Expected(client, t.act) = "queued"
                   THEN \E u \in client'.timeouts : client'.timeouts = {u} /\ u.act = t.act
                   ELSE client'.timeouts = {} /\ client'.pendingRetry = NoTimer]_vars

\* the retry of a rate-limited move has fired after the player disconnected
\* and has sent nothing
C40_Witness ==
    /\ client.last = [op |-> "retry", act |-> [action |-> "move", direction |-> "left"],
                      out |-> "none"]
    /\ ~client.playerId
    /\ client.alive
    /\ client.pendingRetry = NoTimer
    /\ client.timeouts = {}
    /\ client.inflight = <<>>

====
